---- MODULE Spec2Model ----
(***************************************************************************)
(* The epoll server of src/server.c as a state machine.                    *)
(*                                                                         *)
(* The server is one thread: setup, then an endless loop of epoll_wait and *)
(* a pass over the returned batch.  The peers and the kernel are the       *)
(* environment: they queue connections, deliver bytes, end of stream,      *)
(* resets and time-outs, and fill or drain the send path, at any moment,   *)
(* also between the read branch and the write branch of one event.         *)
(*                                                                         *)
(* System calls are resolved against the modelled kernel state:            *)
(*   - recv/send on a descriptor that is not open fail with EBADF;         *)
(*   - epoll_ctl(DEL) succeeds iff the descriptor is registered, close     *)
(*     succeeds iff it is open;                                            *)
(*   - accept, fcntl and epoll_ctl(ADD) can fail for lack of resources.    *)
(* EPOLLHUP is not modelled: the code never tests it.                      *)
(* epoll_wait may report EPOLLIN with nothing to read and EPOLLERR alone;  *)
(* a send to a connection whose peer is gone raises SIGPIPE, which the     *)
(* program leaves at its default action; the four handled signals only     *)
(* log.                                                                    *)
(***************************************************************************)
EXTENDS Integers, Sequences, FiniteSets, TLC

\* ---- bounds of the model ----
MaxPeers == 2     \* peers that ever connect (each connects once)
MaxBytes == 1     \* bytes a connection can have pending in the kernel
MaxChunk == 2     \* bytes of one recv whose values are looked at (SpecSanitize)

\* ---- program constants ----
BUFLEN == 512
MAX_EVENTS == 20
MAX_BACKLOG == 3

\* descriptor numbers: the listener gets the first one, accepted connections
\* get the lowest free one of ConnFds
listenfd == 0
Peers == 1..MaxPeers
ConnFds == 1..MaxPeers

PeerStates == {"up", "fin", "reset", "pipe", "timedout"}
SetupSteps == <<"socket", "setsockopt", "bind", "listen", "epoll_create1", "epoll_ctl">>

VARIABLES
    pc,             \* "setup", "wait", "loop", "event", "write", "exit0", "exit1",
                    \* "killed" (terminated by a signal)
    step,           \* index in SetupSteps of the next setup call
    listenOpen,     \* the listening socket is open
    listenReg,      \* the listening socket is registered with epoll
    acceptq,        \* peers in the listen backlog, oldest first
    fdtab,          \* open connection descriptors: fd -> peer
    reg,            \* connection descriptors registered with epoll
    peer,           \* peer -> what its end of the connection did
    inq,            \* peer -> bytes waiting in the receive queue
    writable,       \* peer -> the send path has room
    rdy,            \* peer -> its descriptor is on the epoll ready list
    events,         \* the events of the batch that are still to be handled
    total_bytes_in, \* the counter of line 290
    cur,            \* the event being handled (events[i] of the batch), and what it did so far
    closed,         \* history: peers whose connection the server closed
    closeCalls,     \* history: peer -> handle_close calls made for its events
    buffer,         \* the bytes one recv put into buffer[] (SpecSanitize only)
    logged,         \* the bytes the printf of line 402 wrote for them
    caught          \* history: signal_handler ran since the loop took its last event

vars == <<pc, step, listenOpen, listenReg, acceptq, fdtab, reg, peer, inq,
          writable, rdy, events, total_bytes_in, cur, closed, closeCalls,
          buffer, logged, caught>>

kernel == <<acceptq, fdtab, reg, peer, inq, writable, rdy>>
hist == <<cur, closed, closeCalls>>
content == <<buffer, logged>>

Min(a, b) == IF a < b THEN a ELSE b

Range(s) == {s[k] : k \in 1..Len(s)}

Running == pc \in {"wait", "loop", "event", "write"}

Exited == pc \in {"exit0", "exit1", "killed"}

OpenFds == DOMAIN fdtab

\* the descriptor of an accepted, not yet closed peer
HasFd(p) == \E fd \in OpenFds : fdtab[fd] = p

FdOf(p) == CHOOSE fd \in OpenFds : fdtab[fd] = p

Idle(p) == ~HasFd(p) /\ p \notin Range(acceptq) /\ p \notin closed

\* cur: the descriptor and flags of the event; the peer whose connection
\* produced it (none for the listener); the bytes its read branch received
\* from that connection; the result of its last recv and
\* of its send; whether it issued a recv or a send on a descriptor that was not
\* open; the system calls it made, in order; whether its handling has ended
NoEvent ==
    [fd |-> listenfd, flags |-> {}, src |-> {}, bytes |-> 0,
     last |-> "none", sent |-> "none", stale |-> FALSE, ops |-> <<>>, done |-> TRUE]

Init ==
    /\ pc = "setup"
    /\ step = 1
    /\ listenOpen = FALSE
    /\ listenReg = FALSE
    /\ acceptq = <<>>
    /\ fdtab = <<>>
    /\ reg = {}
    /\ peer = [p \in Peers |-> "up"]
    /\ inq = [p \in Peers |-> 0]
    /\ writable = [p \in Peers |-> TRUE]
    /\ rdy = [p \in Peers |-> FALSE]
    /\ events = {}
    /\ total_bytes_in = 0
    /\ cur = NoEvent
    /\ closed = {}
    /\ closeCalls = [p \in Peers |-> 0]
    /\ buffer = <<>>
    /\ logged = <<>>
    /\ caught = FALSE

\* ---- setup: lines 131-247, one call per step, each fatal on failure ----
Setup ==
    /\ pc = "setup"
    /\ \E ok \in BOOLEAN :
        IF ~ok
        THEN /\ pc' = "exit1"
             /\ UNCHANGED <<step, listenOpen, listenReg>>
        ELSE /\ listenOpen' = (listenOpen \/ SetupSteps[step] = "socket")
             /\ listenReg' = (listenReg \/ SetupSteps[step] = "epoll_ctl")
             /\ IF step = Len(SetupSteps)
                THEN pc' = "wait" /\ step' = step
                ELSE pc' = pc /\ step' = step + 1
    /\ UNCHANGED <<kernel, events, total_bytes_in, hist>>
    /\ UNCHANGED <<content, caught>>

\* ---- the environment: peers and kernel ----

\* a bug AckDue could have: the acknowledgment sent outside the EPOLLOUT test
AckDueWhateverFlags(flags, total) == 0 # total

\* lines 447-451: the acknowledgment is due
AckDue(flags, total) == "OUT" \in flags /\ 0 # total

\* a bug ReadDue could have: the error flag taken for read readiness
ReadDueOnError(flags) == flags \cap {"IN", "ERR"} # {}

\* line 387: the read branch is entered
ReadDue(flags) == "IN" \in flags

\* The server looks at a connection's kernel state only in epoll_wait and while
\* it handles an event of that connection: the read branch at its receive queue
\* and its peer, the write branch at its peer and its send path.  A change that
\* happens at another moment is indistinguishable from the same change
\* happening right before the branch that can see it or, if none does, right
\* before the next epoll_wait; only those interleavings are explored.
Blocked == pc = "wait"

BeforeRecv(p) == pc = "event" /\ p \in cur.src /\ ReadDue(cur.flags)

BeforeSend(p) == pc = "write" /\ p \in cur.src /\ AckDue(cur.flags, total_bytes_in)

\* a peer's connect completes the handshake and enters the backlog of line 195;
\* the peers are numbered in the order in which they connect
Connect(p) ==
    /\ Blocked
    /\ listenOpen
    /\ Idle(p)
    /\ \A q \in Peers : q < p => ~Idle(q)
    /\ Len(acceptq) < MAX_BACKLOG
    /\ acceptq' = Append(acceptq, p)
    /\ UNCHANGED <<pc, step, listenOpen, listenReg, fdtab, reg, peer, inq, writable,
                   rdy, events, total_bytes_in, hist>>
    /\ UNCHANGED <<content, caught>>

\* a byte of the peer arrives: the descriptor becomes readable (an edge)
PeerSend(p) ==
    /\ Blocked \/ BeforeRecv(p)
    /\ HasFd(p)
    /\ peer[p] = "up"
    /\ inq[p] < MaxBytes
    /\ inq' = [inq EXCEPT ![p] = @ + 1]
    /\ rdy' = [rdy EXCEPT ![p] = TRUE]
    /\ UNCHANGED <<pc, step, listenOpen, listenReg, acceptq, fdtab, reg, peer,
                   writable, events, total_bytes_in, hist>>
    /\ UNCHANGED <<content, caught>>

\* what the peer's end can do next: orderly shutdown (FIN), reset (RST), a
\* reset answering data sent after its FIN (sends then fail with EPIPE), a
\* time-out of the connection
PeerMoves(p) ==
    IF HasFd(p)
    THEN CASE peer[p] = "up" -> {"fin", "reset", "timedout"}
           [] peer[p] = "fin" -> {"reset", "pipe"}
           [] OTHER -> {}
    ELSE {}

PeerChange(p) ==
    /\ Blocked \/ BeforeRecv(p) \/ BeforeSend(p)
    /\ \E s \in PeerMoves(p) : peer' = [peer EXCEPT ![p] = s]
    /\ rdy' = [rdy EXCEPT ![p] = TRUE]
    /\ writable' = [writable EXCEPT ![p] = @ \/ peer'[p] \notin {"up", "fin"}]
    /\ UNCHANGED <<pc, step, listenOpen, listenReg, acceptq, fdtab, reg, inq,
                   events, total_bytes_in, hist>>
    /\ UNCHANGED <<content, caught>>

\* the send path of a connection fills up (no edge) or gets room again (an edge)
SendBufFull(p) ==
    /\ Blocked \/ BeforeSend(p)
    /\ HasFd(p)
    /\ writable[p]
    /\ peer[p] \in {"up", "fin"}
    /\ writable' = [writable EXCEPT ![p] = FALSE]
    /\ UNCHANGED <<pc, step, listenOpen, listenReg, acceptq, fdtab, reg, peer, inq,
                   rdy, events, total_bytes_in, hist>>
    /\ UNCHANGED <<content, caught>>

SendBufDrain(p) ==
    /\ Blocked \/ BeforeSend(p)
    /\ HasFd(p)
    /\ ~writable[p]
    /\ writable' = [writable EXCEPT ![p] = TRUE]
    /\ rdy' = [rdy EXCEPT ![p] = TRUE]
    /\ UNCHANGED <<pc, step, listenOpen, listenReg, acceptq, fdtab, reg, peer, inq,
                   events, total_bytes_in, hist>>
    /\ UNCHANGED <<content, caught>>

\* ---- what the kernel answers ----

\* the readiness of a connection, as far as the code looks at it
EventMask(p) ==
    (IF inq[p] > 0 \/ peer[p] # "up" THEN {"IN"} ELSE {})
    \cup (IF writable[p] \/ peer[p] \in {"reset", "pipe", "timedout"} THEN {"OUT"} ELSE {})
    \cup (IF peer[p] \in {"reset", "pipe", "timedout"} THEN {"ERR"} ELSE {})

\* recv with an empty receive queue
RecvEmpty(fd) ==
    IF fd \notin OpenFds THEN "EBADF"
    ELSE CASE peer[fdtab[fd]] = "up" -> "EAGAIN"
           [] peer[fdtab[fd]] \in {"fin", "pipe"} -> "EOF"
           [] peer[fdtab[fd]] = "reset" -> "ECONNRESET"
           [] OTHER -> "ETIMEDOUT"

\* send of the acknowledgment
SendResult(fd) ==
    IF fd \notin OpenFds THEN "EBADF"
    ELSE CASE peer[fdtab[fd]] = "reset" -> "ECONNRESET"
           [] peer[fdtab[fd]] = "pipe" -> "EPIPE"
           [] peer[fdtab[fd]] = "timedout" -> "ETIMEDOUT"
           [] ~writable[fdtab[fd]] -> "EAGAIN"
           [] OTHER -> "OK"

\* descriptors epoll has something to report for: the listener is level-triggered
\* (EPOLLIN, line 229), connections are edge-triggered (EPOLLET, line 363)
ReadyFds ==
    (IF listenReg /\ acceptq # <<>> THEN {listenfd} ELSE {})
    \cup {fd \in reg \cap OpenFds : rdy[fdtab[fd]] /\ EventMask(fdtab[fd]) # {}}

\* a bug EventOf could have: every registration made with the data.fd of the
\* first connection, so that the events of the others name its descriptor
EventOfFirstFd(fd) ==
    IF fd = listenfd
    THEN [NoEvent EXCEPT !.flags = {"IN"}, !.done = FALSE]
    ELSE [NoEvent EXCEPT !.fd = 1, !.flags = EventMask(fdtab[fd]), !.src = {fdtab[fd]},
                         !.done = FALSE]

\* lines 292, 364: an event names the descriptor its registration was made
\* with and carries the readiness of that descriptor
EventOf(fd) ==
    IF fd = listenfd
    THEN [NoEvent EXCEPT !.flags = {"IN"}, !.done = FALSE]
    ELSE [NoEvent EXCEPT !.fd = fd, !.flags = EventMask(fdtab[fd]), !.src = {fdtab[fd]},
                         !.done = FALSE]

\* connections with nothing to read and no room to write: the only event
\* epoll can have for them is an error condition of the socket, which it
\* reports whatever the registration asked for (EPOLLERR, epoll_ctl(2))
Quiet == {fd \in reg \cap OpenFds : EventMask(fdtab[fd]) = {}}

\* Read readiness can be reported for a socket whose recv then finds nothing
\* (select(2), BUGS): the event of a connection in spurious carries EPOLLIN
\* whatever its receive queue holds; the event of one in erring carries
\* EPOLLERR.
Reported(fd, spurious, erring) ==
    [EventOf(fd) EXCEPT !.flags = @ \cup (IF fd \in spurious THEN {"IN"} ELSE {})
                                     \cup (IF fd \in erring THEN {"ERR"} ELSE {})]

\* a bug Batches could have: epoll_wait asked for one event at a time
BatchesOfOne(ready) == {{fd} : fd \in ready}

\* the descriptors epoll_wait can report in one batch: all that are ready, or
\* MAX_EVENTS of them
Batches(ready) ==
    {b \in SUBSET ready :
        b # {} /\ Cardinality(b) = Min(Cardinality(ready), MAX_EVENTS)}

\* ---- the event loop ----

\* line 255, a batch is returned.  The order of its events is not fixed here:
\* the loop takes them one by one in any order (LoopNext).
EpollWait ==
    /\ pc = "wait"
    /\ \E erring \in SUBSET Quiet :
       \E b \in Batches(ReadyFds \cup erring), spurious \in SUBSET ConnFds :
        /\ spurious \subseteq b
        /\ events' = {Reported(fd, spurious, erring) : fd \in b}
        /\ rdy' = [p \in Peers |-> rdy[p] /\ ~(\E fd \in b \cap OpenFds : fdtab[fd] = p)]
    /\ pc' = "loop"
    /\ UNCHANGED <<step, listenOpen, listenReg, acceptq, fdtab, reg, peer, inq,
                   writable, total_bytes_in, hist>>
    /\ UNCHANGED <<content, caught>>

\* a bug Interrupt could have: EINTR not told apart from the fatal errors
InterruptTakenForFatal ==
    /\ pc = "wait"
    /\ pc' = "exit1"
    /\ UNCHANGED <<step, listenOpen, listenReg, kernel, events, total_bytes_in, hist>>
    /\ UNCHANGED <<content, caught>>

\* lines 256-275: a signal interrupts the blocked epoll_wait (EINTR); the
\* listener is closed and the process exits
Interrupt ==
    /\ pc = "wait"
    /\ IF listenOpen
       THEN listenOpen' = FALSE /\ listenReg' = FALSE /\ pc' = "exit0"
       ELSE UNCHANGED <<listenOpen, listenReg>> /\ pc' = "exit1"
    /\ UNCHANGED <<step, kernel, events, total_bytes_in, hist>>
    /\ UNCHANGED <<content, caught>>

\* a bug InitialTotal could have: the counter declared outside the loop, so
\* that it keeps what the previous event left in it
InitialTotalKept(prev) == prev

\* line 290: the counter is declared, and zeroed, inside the per-event loop;
\* prev is what the previous event left in it
InitialTotal(prev) == 0

\* the handling of the event has ended: on to the increment of line 286
Advance == pc' = "loop" /\ UNCHANGED events

Fatal == pc' = "exit1" /\ UNCHANGED events

LowestFree == CHOOSE fd \in ConnFds \ OpenFds : \A g \in ConnFds \ OpenFds : fd <= g

\* a bug AcceptCalls could have: the descriptor registered as accept returned
\* it, in blocking mode
AcceptCallsWithoutNonblock == <<"accept", "epoll_ctl_add">>

\* the calls of the listener branch in order; a fault names the first that
\* fails, none if there is no such call
AcceptCalls == <<"accept", "fcntl", "fcntl", "epoll_ctl_add">>

Made(fault) ==
    IF fault \in 1..Len(AcceptCalls) THEN SubSeq(AcceptCalls, 1, fault) ELSE AcceptCalls

\* lines 292-385: one listener event, one accept
AcceptEvent ==
    /\ pc = "event"
    /\ cur.fd = listenfd
    /\ acceptq # <<>>
    /\ \E fault \in 1..(Len(AcceptCalls) + 1) :
        LET p == Head(acceptq)
            fd == LowestFree
            ok == fault > Len(AcceptCalls)
        IN  /\ cur' = [cur EXCEPT !.ops = Made(fault), !.done = TRUE]
            /\ IF fault = 1
               THEN UNCHANGED <<acceptq, fdtab, reg, rdy>>
               ELSE /\ acceptq' = Tail(acceptq)
                    /\ fdtab' = [f \in OpenFds \cup {fd} |-> IF f = fd THEN p ELSE fdtab[f]]
                    /\ reg' = IF ok THEN reg \cup {fd} ELSE reg
                    /\ rdy' = [rdy EXCEPT ![p] = ok]
            /\ IF ok THEN Advance ELSE Fatal
    /\ UNCHANGED <<step, listenOpen, listenReg, peer, inq, writable, total_bytes_in,
                   closed, closeCalls>>
    /\ UNCHANGED <<content, caught>>

\* a bug Drain could have: one recv per event, as for a level-triggered
\* descriptor
DrainOnce(avail, total, calls) ==
    LET received == Min(avail, BUFLEN)
    IN  [total |-> total + received, calls |-> calls + 1, left |-> avail - received]

\* lines 394-406: recv until it returns 0 or -1; each call takes what is
\* queued, up to the buffer size
RECURSIVE Drain(_, _, _)
Drain(avail, total, calls) ==
    LET received == Min(avail, BUFLEN)
    IN  IF 0 < received
        THEN Drain(avail - received, total + received, calls + 1)
        ELSE [total |-> total, calls |-> calls + 1, left |-> avail]

\* a bug ReadSwitch could have: the test of line 437 on something else than
\* the counter, so that end of stream never closes
ReadSwitchKeepingOnEof(last, total) ==
    CASE last = "EAGAIN" -> "keep"
      [] last = "ECONNRESET" -> "close"
      [] last = "EOF" -> "keep"
      [] OTHER -> "fatal"

\* a bug ReadSwitch could have: no case for ECONNRESET, which then is fatal
ReadSwitchWithoutReset(last, total) ==
    CASE last = "EAGAIN" -> "keep"
      [] last = "EOF" -> IF total = 0 THEN "close" ELSE "keep"
      [] OTHER -> "fatal"

\* lines 408-444: what the switch on the last recv result decides
ReadSwitch(last, total) ==
    CASE last = "EAGAIN" -> "keep"
      [] last = "ECONNRESET" -> "close"
      [] last = "EOF" -> IF total = 0 THEN "close" ELSE "keep"
      [] OTHER -> "fatal"

\* a bug WriteSwitch could have: EBADF falling through to the close of
\* ECONNRESET
WriteSwitchClosingOnBadf(sent) ==
    CASE sent = "OK" -> "keep"
      [] sent \in {"EBADF", "ECONNRESET"} -> "close"
      [] OTHER -> "fatal"

\* lines 457-489: what the switch on the send result decides
WriteSwitch(sent) ==
    CASE sent = "OK" -> "keep"
      [] sent = "EBADF" -> "keep"
      [] sent = "ECONNRESET" -> "close"
      [] OTHER -> "fatal"

\* a bug HandleClose could have: the descriptor deregistered but never closed
HandleCloseLeakingFd(fd) ==
    IF fd \notin reg
    THEN [ok |-> FALSE, ops |-> <<"epoll_ctl_del">>, reg |-> reg, fdtab |-> fdtab]
    ELSE [ok |-> TRUE, ops |-> <<"epoll_ctl_del">>, reg |-> reg \ {fd}, fdtab |-> fdtab]

\* lines 124-127, 455: SIGPIPE is left at its default action and send is
\* called without MSG_NOSIGNAL; a send on a broken pipe raises the signal,
\* which ends the process before send returns
Raised(sent) == IF sent = "EPIPE" THEN {"SIGPIPE"} ELSE {}

Killed == pc' = "killed" /\ UNCHANGED events

\* lines 87-120: epoll_ctl(DEL), then close; each fatal on failure
HandleClose(fd) ==
    IF fd \notin reg
    THEN [ok |-> FALSE, ops |-> <<"epoll_ctl_del">>, reg |-> reg, fdtab |-> fdtab]
    ELSE [ok |-> fd \in OpenFds,
          ops |-> <<"epoll_ctl_del", "close">>,
          reg |-> reg \ {fd},
          fdtab |-> [f \in OpenFds \ {fd} |-> fdtab[f]]]

\* the kernel and history after handle_close(fd), called for an event of src;
\* the kernel forgets the socket of a closed descriptor
Closing(fd, src) ==
    LET h == HandleClose(fd)
        gone == {fdtab[f] : f \in OpenFds \ DOMAIN h.fdtab}
    IN  /\ reg' = h.reg
        /\ fdtab' = h.fdtab
        /\ closed' = closed \cup gone
        /\ closeCalls' = [p \in Peers |-> IF p \in src THEN closeCalls[p] + 1
                                          ELSE closeCalls[p]]
        /\ rdy' = [p \in Peers |-> rdy[p] /\ p \notin gone]
        /\ writable' = [p \in Peers |-> writable[p] \/ p \in gone]
        /\ peer' = [p \in Peers |-> IF p \in gone THEN "up" ELSE peer[p]]

NotClosing == UNCHANGED <<fdtab, reg, rdy, writable, peer, closed, closeCalls>>

Calls(n, name) == [k \in 1..n |-> name]

\* lines 387-445: the read branch of a connection event
ReadPhase ==
    /\ pc = "event"
    /\ cur.fd # listenfd
    /\ LET e == cur
           open == e.fd \in OpenFds
           avail == IF open THEN inq[fdtab[e.fd]] ELSE 0
           d == Drain(avail, total_bytes_in, 0)
           last == RecvEmpty(e.fd)
           todo == ReadSwitch(last, d.total)
           h == HandleClose(e.fd)
       IN  IF ~ReadDue(e.flags)
           THEN /\ pc' = "write"
                /\ UNCHANGED <<kernel, total_bytes_in, cur, closed, closeCalls, events>>
           ELSE /\ total_bytes_in' = d.total
                /\ inq' = [p \in Peers |-> IF open /\ fdtab[e.fd] = p THEN d.left ELSE inq[p]]
                /\ cur' = [cur EXCEPT !.bytes = d.total - total_bytes_in,
                                     !.last = last,
                                     !.stale = ~open,
                                     !.ops = Calls(d.calls, "recv")
                                             \o (IF todo = "close" THEN h.ops ELSE <<>>)]
                /\ IF todo = "close" THEN Closing(e.fd, e.src) ELSE NotClosing
                /\ pc' = IF todo = "fatal" \/ (todo = "close" /\ ~h.ok)
                         THEN "exit1" ELSE "write"
                /\ UNCHANGED <<acceptq, events>>
    /\ UNCHANGED <<step, listenOpen, listenReg>>
    /\ UNCHANGED <<content, caught>>

\* lines 447-498: the write branch, then the error branch (which only logs)
WritePhase ==
    /\ pc = "write"
    /\ LET e == cur
           sent == SendResult(e.fd)
           todo == WriteSwitch(sent)
           h == HandleClose(e.fd)
       IN  IF AckDue(e.flags, total_bytes_in)
           THEN /\ cur' = [cur EXCEPT !.sent = sent,
                                      !.stale = @ \/ e.fd \notin OpenFds,
                                      !.ops = @ \o <<"send">>
                                                \o (IF todo = "close" THEN h.ops ELSE <<>>),
                                      !.done = TRUE]
                /\ IF todo = "close" THEN Closing(e.fd, e.src) ELSE NotClosing
                /\ IF Raised(sent) # {} THEN Killed
                   ELSE IF todo = "fatal" \/ (todo = "close" /\ ~h.ok) THEN Fatal
                   ELSE Advance
           ELSE /\ cur' = [cur EXCEPT !.done = TRUE]
                /\ NotClosing
                /\ Advance
    /\ UNCHANGED <<step, listenOpen, listenReg, acceptq, inq, total_bytes_in>>
    /\ UNCHANGED <<content, caught>>

\* lines 32-84, 124-127: SIGINT, SIGTERM, SIGUSR1 or SIGUSR2 delivered while
\* the loop works on a batch: the handler prints and returns.  It touches
\* nothing the loop looks at, so a delivery during the handling of an event is
\* not told apart from one right after it, which is the one explored.  (A
\* delivery during epoll_wait is Interrupt.)
signal_handler ==
    /\ pc = "loop"
    /\ ~caught
    /\ caught' = TRUE
    /\ UNCHANGED <<pc, step, listenOpen, listenReg, kernel, events, total_bytes_in,
                   hist, content>>

\* a bug LoopNext could have: the handler recording the signal in a flag that
\* the loop head tests, to shut down as on EINTR
LoopNextWithShutdownFlag ==
    /\ pc = "loop"
    /\ IF caught
       THEN /\ pc' = "exit0"
            /\ listenOpen' = FALSE
            /\ listenReg' = FALSE
            /\ UNCHANGED <<cur, events, total_bytes_in>>
       ELSE /\ UNCHANGED <<listenOpen, listenReg>>
            /\ IF events = {}
               THEN /\ cur' = NoEvent
                    /\ pc' = "wait"
                    /\ UNCHANGED <<events, total_bytes_in>>
               ELSE \E e \in events :
                        /\ cur' = e
                        /\ events' = events \ {e}
                        /\ total_bytes_in' = InitialTotal(total_bytes_in)
                        /\ pc' = "event"
    /\ caught' = FALSE
    /\ UNCHANGED <<step, kernel, closed, closeCalls>>
    /\ UNCHANGED content

\* lines 286-290: the loop takes the next event of the batch and starts its
\* counter, or goes back to epoll_wait when none is left
LoopNext ==
    /\ pc = "loop"
    /\ IF events = {}
       THEN /\ cur' = NoEvent
            /\ pc' = "wait"
            /\ UNCHANGED <<events, total_bytes_in>>
       ELSE \E e \in events :
                /\ cur' = e
                /\ events' = events \ {e}
                /\ total_bytes_in' = InitialTotal(total_bytes_in)
                /\ pc' = "event"
    /\ caught' = FALSE
    /\ UNCHANGED <<step, listenOpen, listenReg, kernel, closed, closeCalls>>
    /\ UNCHANGED content

Environment ==
    \E p \in Peers :
        \/ Connect(p)
        \/ PeerSend(p)
        \/ PeerChange(p)
        \/ SendBufFull(p)
        \/ SendBufDrain(p)

Server ==
    \/ Setup
    \/ EpollWait
    \/ Interrupt
    \/ AcceptEvent
    \/ ReadPhase
    \/ WritePhase
    \/ LoopNext

Next == Server \/ Environment \/ signal_handler

Spec == Init /\ [][Next]_vars

\* The process is one thread that does nothing but run this loop: a step of
\* the server that can be taken is taken.  Signals and peers owe nothing.
SpecFair ==
    /\ Spec
    /\ WF_vars(EpollWait)
    /\ WF_vars(LoopNext)
    /\ WF_vars(AcceptEvent)
    /\ WF_vars(ReadPhase)
    /\ WF_vars(WritePhase)

\* ---- the bytes of one recv: lines 394-403 ----

Bytes == 0..255

\* the value of a byte read through the char *p of line 396: where char is a
\* signed type (as on x86) the bytes from 0x80 on are negative, where it is
\* unsigned (as on ARM) they keep their value
AsChar(b, signed) == IF signed /\ b >= 128 THEN b - 256 ELSE b

\* line 399, with ' ' = 32, '\n' = 10 and '.' = 46
SanitizeByte(b, signed) ==
    IF AsChar(b, signed) < 32 /\ AsChar(b, signed) # 10 THEN 46 ELSE b

Sanitized(buf, signed) == [k \in 1..Len(buf) |-> SanitizeByte(buf[k], signed)]

\* line 402: "%.*s" writes the first n bytes of the buffer, or fewer if it meets
\* a NUL byte before
RECURSIVE Printed(_, _)
Printed(buf, n) ==
    IF n = 0 \/ buf = <<>> \/ Head(buf) = 0
    THEN <<>>
    ELSE <<Head(buf)>> \o Printed(Tail(buf), n - 1)

\* recv delivers one more byte into the buffer
RecvByte(b) ==
    /\ logged = <<>>
    /\ Len(buffer) < MaxChunk
    /\ buffer' = Append(buffer, b)
    /\ UNCHANGED <<pc, step, listenOpen, listenReg, kernel, events, total_bytes_in,
                   hist, logged>>
    /\ UNCHANGED caught

\* lines 396-403: the loop over the received bytes, then the printf; the
\* signedness of char is the build's
LogReceived ==
    /\ logged = <<>>
    /\ buffer # <<>>
    /\ \E signed \in BOOLEAN :
          logged' = Printed(Sanitized(buffer, signed), Len(buffer))
    /\ UNCHANGED <<pc, step, listenOpen, listenReg, kernel, events, total_bytes_in,
                   hist, buffer>>
    /\ UNCHANGED caught

NextSanitize == (\E b \in Bytes : RecvByte(b)) \/ LogReceived

SpecSanitize == Init /\ [][NextSanitize]_vars

\* ---- what an event did ----

Count(ops, name) == Cardinality({k \in 1..Len(ops) : ops[k] = name})

Sends == Count(cur.ops, "send")

Closes == Count(cur.ops, "close")

ConnEvent == cur.src # {}

\* the current connection event went through both branches
EventDone == ConnEvent /\ cur.done

Registered(p) == HasFd(p) /\ FdOf(p) \in reg

\* ---- C1 ----

C2_CounterScopedToEvent ==
    ConnEvent =>
        /\ total_bytes_in = cur.bytes
        /\ Sends <= 1
        /\ (Sends = 1 => cur.bytes >= 1)

\* an event with write readiness that read nothing sent nothing, in a batch that
\* is not over, after another connection had been served
C2_Witness ==
    /\ EventDone
    /\ events # {}
    /\ \E q \in Peers \ cur.src : Registered(q)
    /\ "IN" \in cur.flags
    /\ "OUT" \in cur.flags
    /\ cur.bytes = 0
    /\ Sends = 0

\* ---- C3 ----

\* C3: handle_close is called at most once for the events of one connection,
\* an event deregisters at most once, and every close is directly preceded by
\* the deregistration.
C3_CloseExactlyOnce ==
    /\ \A p \in Peers : closeCalls[p] <= 1
    /\ Count(cur.ops, "epoll_ctl_del") <= 1
    /\ \A k \in 1..Len(cur.ops) :
          cur.ops[k] = "close" => k > 1 /\ cur.ops[k - 1] = "epoll_ctl_del"

\* the read branch closed the connection, the send of the same event then
\* failed with EBADF and nothing was closed a second time
C3_Witness ==
    /\ EventDone
    /\ pc = "loop"
    /\ cur.sent = "EBADF"
    /\ Closes = 1
    /\ \A p \in cur.src : closeCalls[p] = 1 /\ p \in closed

\* ---- C4 ----

\* C4: no recv and no send is issued on a descriptor that is not open, and
\* within an event none follows the close.
C4_NoIoAfterClose ==
    /\ ~cur.stale
    /\ \A j, k \in 1..Len(cur.ops) :
          (j < k /\ cur.ops[j] = "close") => cur.ops[k] \notin {"recv", "send"}

\* ---- C5 ----

\* C5: an event whose read loop ended on end of stream (recv returned 0)
\* deregisters and closes the connection and sends nothing.
C5_EofClosesWithinPass ==
    (EventDone /\ cur.last = "EOF") => (Closes = 1 /\ Sends = 0)

\* ---- C6 ----

\* C6: when the loop is blocked in epoll_wait and epoll has nothing to report,
\* no open connection has a peer that disconnected.  (In such a state
\* edge-triggered epoll does not report the connection's end of stream again,
\* and a peer that shut down owes nothing more: the connection would stay
\* registered for ever.)
C6_NoLeakAtRest ==
    (pc = "wait" /\ ReadyFds = {}) =>
        \A p \in Peers : HasFd(p) => peer[p] \notin {"fin", "reset", "pipe"}

\* ---- C7 ----

\* C7: the process never exits out of the handling of a connection's event.
C7_PeerFaultsContained == ~(pc = "exit1" /\ ConnEvent)

\* ---- C8 ----

ResetOnRecv ==
    /\ pc = "event"
    /\ cur.fd # listenfd
    /\ "IN" \in cur.flags
    /\ RecvEmpty(cur.fd) = "ECONNRESET"

ResetOnSend ==
    /\ pc = "write"
    /\ AckDue(cur.flags, total_bytes_in)
    /\ SendResult(cur.fd) = "ECONNRESET"

\* everything but the connection of descriptor fd keeps its descriptor and its
\* registration, and so does the listener
OthersKept(fd) ==
    /\ \A g \in ConnFds \ {fd} :
          /\ (g \in OpenFds) = (g \in OpenFds')
          /\ (g \in reg) = (g \in reg')
          /\ g \in OpenFds => fdtab'[g] = fdtab[g]
    /\ listenOpen' /\ listenReg'

\* C8: the step of the server in which recv or send fails with ECONNRESET
\* deregisters and closes that connection, does not exit, and leaves every
\* other connection and the listener registered and open.
C8_ResetCleanedUp ==
    [][((ResetOnRecv \/ ResetOnSend) /\ pc' # pc) =>
            /\ cur.fd \notin OpenFds'
            /\ cur.fd \notin reg'
            /\ cur.src \subseteq closed'
            /\ pc' \in {"write", "loop"}
            /\ OthersKept(cur.fd)]_vars

\* a reset was cleaned up while another connection was open
C8_Witness ==
    /\ EventDone
    /\ pc = "loop"
    /\ cur.last = "ECONNRESET"
    /\ Closes = 1
    /\ cur.src \subseteq closed
    /\ \E q \in Peers \ cur.src : Registered(q)

\* ---- C9 ----

\* C9: after a recv that failed with EAGAIN, and after a send that failed with
\* EAGAIN, the process is running and the connection is open and registered.
C9_WouldBlockRecoverable ==
    (ConnEvent /\ ((cur.last = "EAGAIN" /\ cur.sent = "none") \/ cur.sent = "EAGAIN")) =>
        /\ pc # "exit1"
        /\ \A p \in cur.src : Registered(p)

\* ---- C10 ----

\* C10: the only step out of the blocked epoll_wait that ends the process is
\* the interruption; it closes the listener, exits with code 0, and touches no
\* connection, no registration of a connection and no event; after an exit
\* nothing happens any more.
C10_InterruptShutsDown ==
    [][/\ (pc = "wait" /\ pc' \notin {"wait", "loop"}) =>
            /\ pc' = "exit0"
            /\ ~listenOpen'
            /\ UNCHANGED <<step, kernel, events, total_bytes_in, hist>>
       /\ ~Exited]_vars

\* interrupted with several connections open, all left as they were
C10_Witness ==
    /\ pc = "exit0"
    /\ ~listenOpen
    /\ Cardinality(OpenFds) > 1
    /\ OpenFds \subseteq reg
    /\ closed = {}

\* ---- C11 ----

BetweenEvents == pc \in {"wait", "loop"}

\* the step is the accept of the listener branch registering the descriptor it
\* was given
RegisteredByAccept ==
    /\ pc = "event"
    /\ cur.fd = listenfd
    /\ \E fd \in ConnFds \ OpenFds :
          /\ reg' = reg \cup {fd}
          /\ fd \in OpenFds'
          /\ cur'.ops = AcceptCalls

\* the step is a handle_close of the current event's descriptor
DeregisteredByClose ==
    /\ pc \in {"event", "write"}
    /\ cur.fd # listenfd
    /\ reg' = reg \ {cur.fd}
    /\ Count(cur'.ops, "epoll_ctl_del") = Count(cur.ops, "epoll_ctl_del") + 1

\* C11: between the handling of two events the registered descriptors are
\* exactly the open ones (the listener and the accepted, not yet closed
\* connections); the registration of a connection changes only in the accept
\* of a listener event, which adds it, and in handle_close, which removes it
\* and closes the descriptor.
C11_RegisteredIffLive ==
    [][/\ BetweenEvents' => (reg' = OpenFds' /\ listenOpen' /\ listenReg')
       /\ reg' # reg => (RegisteredByAccept \/ DeregisteredByClose)
       /\ (DeregisteredByClose /\ reg' # reg /\ pc' # "exit1") => cur.fd \notin OpenFds']_vars

\* a batch ended after one connection was closed and with another one open
C11_Witness ==
    /\ pc = "wait"
    /\ closed # {}
    /\ OpenFds # {}
    /\ reg = OpenFds

\* ---- C12 ----

\* the listener event made a call that failed: accept, one of the two fcntl,
\* or the epoll_ctl that leaves the accepted descriptor unregistered
ListenerFailed ==
    /\ cur.src = {}
    /\ cur.ops # <<>>
    /\ Len(cur.ops) < Len(AcceptCalls) \/ ~(OpenFds \subseteq reg)

\* the connection event got a result the code has no recovery for, or its
\* handle_close failed
ConnectionFailed ==
    /\ ConnEvent
    /\ \/ cur.last \in {"ETIMEDOUT", "EBADF"}
       \/ cur.sent \in {"EPIPE", "ETIMEDOUT"}
       \/ Count(cur.ops, "epoll_ctl_del") > Closes

\* C12: the process exits with code 0 only out of the blocked epoll_wait, with
\* the listener open before and closed after; a setup call that fails exits
\* with code 1 and the loop is entered only after the six setup calls
\* succeeded; a failed accept, fcntl, epoll_ctl or close and an unclassified
\* recv or send error exit with code 1; nothing runs after an exit.
C12_ExitCodes ==
    [][/\ pc' = "exit0" => (pc = "wait" /\ listenOpen /\ ~listenOpen')
       /\ pc = "setup" =>
            /\ pc' \in {"setup", "wait", "exit1"}
            /\ pc' = "setup" => (step' = step + 1 /\ step' <= Len(SetupSteps))
            /\ pc' = "wait" => (step = Len(SetupSteps) /\ listenOpen' /\ listenReg')
            /\ (listenOpen' = listenOpen /\ step = 1) => pc' = "exit1"
            /\ (listenReg' = listenReg /\ step = Len(SetupSteps)) => pc' = "exit1"
       /\ (ListenerFailed' \/ ConnectionFailed') => pc' = "exit1"
       /\ ~Exited]_vars

\* ---- C13 ----

\* C13: the log of a received chunk has the length of the chunk and holds, in
\* order, '.' for each byte below 0x20 other than newline and the byte itself
\* for every other value of 0..255.
C13_ControlBytesOnly ==
    logged # <<>> =>
        /\ Len(logged) = Len(buffer)
        /\ \A k \in 1..Len(buffer) :
              logged[k] = (IF buffer[k] < 32 /\ buffer[k] # 10 THEN 46 ELSE buffer[k])

\* ---- C14 ----

\* the read branch of the current event ran and ended, having received nothing
ReadNothing ==
    /\ ConnEvent
    /\ pc \in {"write", "loop"}
    /\ "IN" \in cur.flags
    /\ cur.bytes = 0

\* C14 as stated: an event whose read loop ended after a first recv that
\* returned end of stream or would-block deregistered and closed the
\* connection.
C14_ZeroBytesCloses ==
    (ReadNothing /\ cur.last \in {"EOF", "EAGAIN"}) =>
        (Closes = 1 /\ cur.src \subseteq closed)

\* C14 amended: an event whose first recv returned end of stream deregistered
\* and closed the connection; one whose first recv returned would-block closed
\* nothing and left the connection open and registered.
C14_EofClosesWouldBlockKeeps ==
    /\ (ReadNothing /\ cur.last = "EOF") =>
            /\ Closes = 1
            /\ cur.src \subseteq closed
            /\ cur.fd \notin OpenFds \cup reg
    /\ (ReadNothing /\ cur.last = "EAGAIN") =>
            /\ Closes = 0
            /\ Count(cur.ops, "epoll_ctl_del") = 0
            /\ \A p \in cur.src : Registered(p) /\ FdOf(p) = cur.fd

\* a first recv returned end of stream and the event closed the connection
C14_Witness ==
    /\ EventDone
    /\ pc = "loop"
    /\ cur.ops = <<"recv", "epoll_ctl_del", "close">>
    /\ cur.last = "EOF"
    /\ cur.src \subseteq closed

\* ---- C15 ----

\* the connection events that still have calls to make: those left in the
\* batch and the one being handled
Unfinished == events \cup (IF cur.done THEN {} ELSE {cur})

ListenerEventDone == cur.fd = listenfd /\ cur.src = {} /\ cur.ops # <<>> /\ cur.done

\* C16: a listener event calls accept once; if the process runs on after it,
\* the event made, in this order, accept, the two fcntl that set O_NONBLOCK and
\* the epoll_ctl that registers the descriptor, and made no recv and no send;
\* if one of these calls failed the process has exited with code 1; in a
\* running server every open connection descriptor is registered.
C16_AcceptProtocol ==
    /\ ListenerEventDone =>
            /\ Count(cur.ops, "accept") = 1
            /\ Count(cur.ops, "recv") + Count(cur.ops, "send") = 0
            /\ pc # "exit1" => cur.ops = <<"accept", "fcntl", "fcntl", "epoll_ctl_add">>
            /\ ListenerFailed => pc = "exit1"
    /\ Running => OpenFds \subseteq reg

\* a listener event accepted and registered one connection and left another
\* one in the backlog
C16_Witness ==
    /\ ListenerEventDone
    /\ pc = "loop"
    /\ acceptq # <<>>
    /\ Cardinality(OpenFds) = 1
    /\ OpenFds \subseteq reg

\* ---- C17 ----

\* the read branch of the current event ran and left the connection open
ReadAndKept ==
    /\ ConnEvent
    /\ pc \in {"write", "loop"}
    /\ "IN" \in cur.flags
    /\ cur.fd \in OpenFds

Recvs == Count(cur.ops, "recv")

ErrorAlone == ConnEvent /\ cur.flags = {"ERR"}

\* C18: the handling of a connection event that carries the error flag with
\* neither read nor write readiness makes no recv, send, epoll_ctl or close,
\* does not exit, and changes no descriptor, no registration and nothing of
\* any connection.
C18_ErrorAloneChangesNothing ==
    [][(ErrorAlone /\ pc \in {"event", "write"}) =>
            /\ cur'.ops = <<>>
            /\ pc' \in {"write", "loop"}
            /\ UNCHANGED <<kernel, listenOpen, listenReg, closed, closeCalls>>]_vars

\* an event with the error flag alone was handled to its end with another
\* connection open
C18_Witness ==
    /\ ErrorAlone
    /\ cur.done
    /\ pc = "loop"
    /\ \A p \in cur.src : Registered(p)
    /\ \E q \in Peers \ cur.src : Registered(q)

\* ---- C19 ----

Pending(p) == p \in Range(acceptq)

InBatch == pc \in {"loop", "event", "write"}

\* C20: the delivery of a signal while the loop works on a batch changes
\* nothing the loop looks at; the loop head that follows takes the next event
\* of the batch or, if none is left, goes back to epoll_wait, with the listener
\* open and registered; and the process exits with code 0 only out of a
\* blocked epoll_wait.
C20_SignalInBatchIgnored ==
    [][/\ (caught' /\ ~caught) =>
            /\ InBatch
            /\ UNCHANGED <<pc, step, listenOpen, listenReg, kernel, events,
                           total_bytes_in, hist>>
       /\ (caught /\ pc' # pc) =>
            /\ pc' = (IF events = {} THEN "wait" ELSE "event")
            /\ events # {} => (cur' \in events /\ events' = events \ {cur'})
            /\ listenOpen' /\ listenReg'
            /\ UNCHANGED <<kernel, closed, closeCalls>>
       /\ pc' = "exit0" => pc = "wait"]_vars

\* a signal was delivered after the first event of a batch, with events left
C20_Witness ==
    /\ caught
    /\ pc = "loop"
    /\ cur.done
    /\ cur.ops # <<>>
    /\ events # {}

====
